---- MODULE Spec2Model ----
(***************************************************************************)
(* IntelligentFigureMatcher (src/modules/intelligent_figure_matcher.py):   *)
(* keyword classification of slides and figures, the pairwise              *)
(* compatibility score, and the two-phase greedy optimize_figure_assignment*)
(* as a state machine over the slide dicts it mutates.                     *)
(*                                                                         *)
(* Python dicts are functions from field names to values; a missing key is *)
(* a name outside DOMAIN.  Texts are strings, inspected character by       *)
(* character with Len, SubSeq and \o.  Scores are exact, in units of       *)
(* 1/600 (0.01 = 6 units), so 0.25 is Hundredths(25) = 150.                *)
(***************************************************************************)
EXTENDS Integers, Sequences, FiniteSets, TLC

(***************************************************************************)
(* Text primitives: str.lower, str.upper, `kw in text`, str.split, and the *)
(* regular expressions \b\w+\b, \b[A-Z]{2,6}\b, \b\w+[-]\w+(?:[-]\w+)*\b.  *)
(***************************************************************************)
UpperAlphabet == "ABCDEFGHIJKLMNOPQRSTUVWXYZ"

LowerAlphabet == "abcdefghijklmnopqrstuvwxyz"

DigitAlphabet == "0123456789"

\* s[i-1:i]: the character at position i, empty outside the string
Char(s, i) == IF i \in 1..Len(s) THEN SubSeq(s, i, i) ELSE ""

CharsOf(s) == {Char(s, i) : i \in 1..Len(s)}

UpperLetters == CharsOf(UpperAlphabet)

LowerLetters == CharsOf(LowerAlphabet)

\* \w for the ASCII texts of the model: letters, digits and underscore.
WordChars == UpperLetters \cup LowerLetters \cup CharsOf(DigitAlphabet) \cup {"_"}

IndexIn(alphabet, c) == CHOOSE i \in 1..Len(alphabet) : Char(alphabet, i) = c

LowerChar(c) == IF c \in UpperLetters THEN Char(LowerAlphabet, IndexIn(UpperAlphabet, c)) ELSE c

UpperChar(c) == IF c \in LowerLetters THEN Char(UpperAlphabet, IndexIn(LowerAlphabet, c)) ELSE c

RECURSIVE LowerFrom(_, _)
LowerFrom(s, i) == IF i > Len(s) THEN "" ELSE LowerChar(Char(s, i)) \o LowerFrom(s, i + 1)

RECURSIVE UpperFrom(_, _)
UpperFrom(s, i) == IF i > Len(s) THEN "" ELSE UpperChar(Char(s, i)) \o UpperFrom(s, i + 1)

Lower(s) == LowerFrom(s, 1)

Upper(s) == UpperFrom(s, 1)

\* Python's `kw in text` for a non-empty kw.
Contains(text, kw) ==
    \E i \in 1..(Len(text) - Len(kw) + 1) : SubSeq(text, i, i + Len(kw) - 1) = kw

RECURSIVE JoinFrom(_, _)
JoinFrom(parts, i) ==
    IF i > Len(parts) THEN ""
    ELSE IF i = Len(parts) THEN parts[i]
    ELSE parts[i] \o " " \o JoinFrom(parts, i + 1)

\* ' '.join(parts)
Join(parts) == JoinFrom(parts, 1)

IsW(s, i) == i \in 1..Len(s) /\ Char(s, i) \in WordChars

\* Maximal runs of the characters in (inSet = TRUE) or outside (FALSE) `chars`.
InRun(s, i, chars, inSet) == i \in 1..Len(s) /\ ((Char(s, i) \in chars) = inSet)

RunStarts(s, chars, inSet) ==
    {i \in 1..Len(s) : InRun(s, i, chars, inSet) /\ ~InRun(s, i - 1, chars, inSet)}

RunEnd(s, i, chars, inSet) ==
    CHOOSE j \in i..Len(s) :
        /\ \A k \in i..j : InRun(s, k, chars, inSet)
        /\ ~InRun(s, j + 1, chars, inSet)

\* re.findall(r'\b\w+\b', s), as a set
Words(s) == {SubSeq(s, i, RunEnd(s, i, WordChars, TRUE)) : i \in RunStarts(s, WordChars, TRUE)}

\* set(s.split()): the whitespace of the model's texts is the space
SplitWords(s) == {SubSeq(s, i, RunEnd(s, i, {" "}, FALSE)) : i \in RunStarts(s, {" "}, FALSE)}

\* re.findall(r'\b[A-Z]{2,6}\b', s), as a set: whole \w-runs of 2 to 6 capitals
Acronyms(s) ==
    {w \in Words(s) : Len(w) \in 2..6 /\ \A k \in 1..Len(w) : Char(w, k) \in UpperLetters}

\* re.findall(r'\b\w+[-]\w+(?:[-]\w+)*\b', s), as a set: maximal chains of
\* \w-runs joined by single hyphens, at least two runs long
RECURSIVE ChainEnd(_, _)
ChainEnd(s, i) ==
    LET e == RunEnd(s, i, WordChars, TRUE)
    IN  IF Char(s, e + 1) = "-" /\ IsW(s, e + 2) THEN ChainEnd(s, e + 2) ELSE e

Compounds(s) ==
    {SubSeq(s, i, ChainEnd(s, i)) :
        i \in {j \in RunStarts(s, WordChars, TRUE) :
                  /\ ~(Char(s, j - 1) = "-" /\ IsW(s, j - 2))
                  /\ ChainEnd(s, j) > RunEnd(s, j, WordChars, TRUE)}}

\* dict.get(key, default)
Get(d, key, default) == IF key \in DOMAIN d THEN d[key] ELSE default

Min(a, b) == IF a <= b THEN a ELSE b

\* n/100 in score units
Hundredths(n) == n * 6

(***************************************************************************)
(* Keyword tables of __init__, in declaration order.                       *)
(***************************************************************************)
slide_type_keywords ==
    << [type |-> "background",
        keywords |-> <<"background", "introduction", "motivation", "problem", "challenge">>],
       [type |-> "method",
        keywords |-> <<"methodology", "approach", "method", "algorithm", "architecture",
                       "framework">>],
       [type |-> "result",
        keywords |-> <<"result", "experiment", "evaluation", "performance", "comparison">>],
       [type |-> "ablation",
        keywords |-> <<"ablation", "analysis", "component", "impact">>],
       [type |-> "conclusion",
        keywords |-> <<"conclusion", "future", "limitation", "summary">>] >>

figure_type_keywords ==
    << [type |-> "method_architecture", priority |-> 5,
        keywords |-> <<"architecture", "framework", "overview", "system", "model",
                       "illustration of our proposed", "cross-modal", "teacher model",
                       "style-based">>],
       [type |-> "results_performance", priority |-> 4,
        keywords |-> <<"comparison", "performance", "result", "evaluation", "quantitative",
                       "qualitative">>],
       [type |-> "method_detail", priority |-> 3,
        keywords |-> <<"visualization", "attention", "map", "process", "mechanism",
                       "detail">>],
       [type |-> "results_examples", priority |-> 2,
        keywords |-> <<"example", "generated", "output", "synthesis", "transfer">>],
       [type |-> "problem_illustration", priority |-> 1,
        keywords |-> <<"overfitting", "artifact", "problem", "issue", "challenge">>] >>

\* sum(1 for keyword in keywords if keyword in text)
KeywordCount(keywords, text) ==
    Cardinality({i \in 1..Len(keywords) : Contains(text, keywords[i])})

\* f"{title} {content}" of a slide, lower-cased
SlideText(slide) ==
    Lower(Get(slide, "title", "")) \o " " \o Lower(Join(Get(slide, "content", <<>>)))

\* f"{caption} {description}" of a figure, lower-cased
FigureText(figure) ==
    Lower(Get(figure, "caption", "")) \o " " \o Lower(Get(figure, "description", ""))

\* a maximum that keeps the last maximal key
LastMaximalSlideType(slide) ==
    LET text == SlideText(slide)
        count(i) == KeywordCount(slide_type_keywords[i].keywords, text)
        scores == {i \in 1..Len(slide_type_keywords) : count(i) > 0}
    IN  IF scores = {} THEN "method"
        ELSE slide_type_keywords[
                 CHOOSE i \in scores :
                     \A j \in scores : count(j) < count(i) \/ (count(j) = count(i) /\ j <= i)
             ].type

\* max(scores, key=scores.get) returns the first maximal key in insertion order.
classify_slide_type(slide) ==
    LET text == SlideText(slide)
        score(i) == KeywordCount(slide_type_keywords[i].keywords, text)
        scores == {i \in 1..Len(slide_type_keywords) : score(i) > 0}
    IN  IF scores = {} THEN "method"
        ELSE slide_type_keywords[
                 CHOOSE i \in scores :
                     \A j \in scores : score(j) < score(i) \/ (score(j) = score(i) /\ i <= j)
             ].type

\* The loop of classify_figure_type from table entry i on.  best.score is
\* 10 * total_score (keyword_score + priority * 0.1), "None" is best_type = None.
RECURSIVE FigureTypeLoop(_, _, _)
FigureTypeLoop(text, i, best) ==
    IF i > Len(figure_type_keywords) THEN best
    ELSE LET config == figure_type_keywords[i]
             keyword_score == KeywordCount(config.keywords, text)
             total_score == 10 * keyword_score + config.priority
             better == \/ total_score > best.score
                       \/ (total_score = best.score /\ config.priority > best.priority)
         IN  FigureTypeLoop(text, i + 1,
                 IF keyword_score > 0 /\ better
                 THEN [type |-> config.type, score |-> total_score,
                       priority |-> config.priority]
                 ELSE best)

\* a confidence without its cap at 1.0
UncappedFigureType(figure) ==
    LET best == FigureTypeLoop(FigureText(figure), 1,
                               [type |-> "None", score |-> 0, priority |-> 0])
    IN  [type |-> IF best.type = "None" THEN "method_detail" ELSE best.type,
         confidence |-> best.score]

\* (figure_type, confidence); confidence is in thirtieths: min(best_score / 3.0, 1.0) * 30
classify_figure_type(figure) ==
    LET best == FigureTypeLoop(FigureText(figure), 1,
                               [type |-> "None", score |-> 0, priority |-> 0])
    IN  [type |-> IF best.type = "None" THEN "method_detail" ELSE best.type,
         confidence |-> IF best.score > 0 THEN Min(best.score, 30) ELSE 0]

stop_words ==
    {"the", "a", "an", "and", "or", "but", "in", "on", "at", "to", "for", "of", "with", "by",
     "is", "are", "was", "were", "be", "been", "being", "have", "has", "had", "do", "does",
     "did", "will", "would", "could", "should", "may", "might", "can", "this", "that",
     "these", "those", "we", "our", "use", "using", "show", "shows", "paper", "figure",
     "table", "results", "method"}

domain_keywords ==
    {"algorithm", "model", "architecture", "framework", "network", "learning", "training",
     "optimization", "performance", "accuracy", "evaluation", "dataset", "benchmark",
     "attention", "transformer", "convolution", "neural", "deep", "machine", "artificial",
     "classification", "regression", "clustering", "segmentation", "detection",
     "recognition", "feature", "embedding", "representation", "encoding", "decoding",
     "generation", "medical", "clinical", "diagnosis", "treatment", "patient", "healthcare",
     "therapy", "agent", "workflow", "system", "pipeline", "process", "methodology",
     "approach"}

extract_important_terms(text) ==
    LET acronyms == {Lower(term) : term \in Acronyms(Upper(text))}
        compound_terms == {Lower(term) : term \in Compounds(text)}
        words == {word \in Words(Lower(text)) : Len(word) >= 4 /\ word \in domain_keywords}
    IN  (acronyms \cup compound_terms \cup words) \ stop_words

(***************************************************************************)
(* calculate_compatibility_score, one operator per contribution.           *)
(***************************************************************************)
semantic_exclusions ==
    << <<"ablation", "workflow", "evolution">>,
       <<"ablation", "iteration", "process">>,
       <<"ablation", "over", "iterations">> >>

\* type_compatibility.get((slide_type, figure_type), 0.05), in hundredths
type_compatibility(slide_type, figure_type) ==
    CASE slide_type = "method" /\ figure_type = "method_architecture" -> 30
      [] slide_type = "method" /\ figure_type = "method_detail" -> 25
      [] slide_type = "result" /\ figure_type = "results_performance" -> 30
      [] slide_type = "result" /\ figure_type = "results_examples" -> 25
      [] slide_type = "background" /\ figure_type = "problem_illustration" -> 20
      [] slide_type = "ablation" /\ figure_type = "results_performance" -> 15
      [] OTHER -> 5

\* the semantic contribution without its cap
SemanticScoreUncapped(slide, figure) ==
    Cardinality(extract_important_terms(SlideText(slide))
                    \cap extract_important_terms(FigureText(figure))) * Hundredths(15)

\* 1. min(len(common_important_terms) * 0.15, 0.4)
SemanticScore(slide, figure) ==
    LET common_important_terms ==
            extract_important_terms(SlideText(slide))
                \cap extract_important_terms(FigureText(figure))
    IN  Min(Cardinality(common_important_terms) * Hundredths(15), Hundredths(40))

\* the number of matching exclusion triples
MatchingExclusions(slide, figure) ==
    Cardinality({i \in 1..Len(semantic_exclusions) :
        /\ Contains(SlideText(slide), semantic_exclusions[i][1])
        /\ Contains(FigureText(figure), semantic_exclusions[i][2])
        /\ Contains(FigureText(figure), semantic_exclusions[i][3])})

\* one penalty however many triples match
ExclusionPenaltyOnce(slide, figure) ==
    IF MatchingExclusions(slide, figure) > 0 THEN Hundredths(30) ELSE 0

\* score -= 0.3 per matching triple
ExclusionPenalty(slide, figure) == MatchingExclusions(slide, figure) * Hundredths(30)

\* a type contribution that ignores the confidence
TypeScoreFullConfidence(slide, figure) ==
    Hundredths(type_compatibility(classify_slide_type(slide),
                                  classify_figure_type(figure).type))

\* 2. type_match * figure_confidence
TypeScore(slide, figure) ==
    LET fig == classify_figure_type(figure)
        type_match == type_compatibility(classify_slide_type(slide), fig.type)
    IN  (Hundredths(type_match) * fig.confidence) \div 30

\* the overlap contribution without its cap
OverlapScoreUncapped(slide, figure) ==
    Cardinality((SplitWords(SlideText(slide)) \cap SplitWords(FigureText(figure)))
                    \ {"the", "a", "an", "and", "or", "but", "in", "on", "at", "to",
                       "for", "of", "with", "by"}) * Hundredths(5)

\* 3. min(len(significant_words) * 0.05, 0.2)
OverlapScore(slide, figure) ==
    LET common_words == SplitWords(SlideText(slide)) \cap SplitWords(FigureText(figure))
        significant_words ==
            common_words \ {"the", "a", "an", "and", "or", "but", "in", "on", "at", "to",
                            "for", "of", "with", "by"}
    IN  Min(Cardinality(significant_words) * Hundredths(5), Hundredths(20))

\* 4. + 0.1 for an architecture/framework/overview figure on a method slide
ArchitectureBonus(slide, figure) ==
    IF /\ \/ Contains(FigureText(figure), "architecture")
          \/ Contains(FigureText(figure), "framework")
          \/ Contains(FigureText(figure), "overview")
       /\ classify_slide_type(slide) = "method"
    THEN Hundredths(10) ELSE 0

\* the score before the final min(score, 1.0)
RawScore(slide, figure) ==
    SemanticScore(slide, figure) - ExclusionPenalty(slide, figure)
        + TypeScore(slide, figure) + OverlapScore(slide, figure)
        + ArchitectureBonus(slide, figure)

\* the score with a floor at 0 the code does not have
FlooredScore(slide, figure) ==
    IF RawScore(slide, figure) < 0 THEN 0 ELSE Min(RawScore(slide, figure), Hundredths(100))

calculate_compatibility_score(slide, figure) == Min(RawScore(slide, figure), Hundredths(100))

\* any(keyword in text for keyword in arch_keywords)
arch_keywords ==
    <<"architecture", "framework", "overview", "system", "illustration of our proposed">>

IsArchitectureFigure(figure) ==
    \E i \in 1..Len(arch_keywords) : Contains(FigureText(figure), arch_keywords[i])

(***************************************************************************)
(* The inputs of the model.  Slides are the planner's dicts: title and     *)
(* content may be missing, and the planner may have set includes_figure    *)
(* and figure_reference already.  Figures carry an id and optional         *)
(* caption, description, filename and path.                                *)
(***************************************************************************)
MaxSlides == 2

MaxFigures == 2

\* Python's None
None == [none |-> TRUE]

\* the id of the figure at position j of the figure list (ids are distinct)
FigureId(j) == "fig" \o Char(DigitAlphabet, j + 1)

PlannedReference ==
    [id |-> FigureId(1), caption |-> "planned", filename |-> "", path |-> ""]

\* a reference the planner left to a figure that is not in the figure list
StaleReference ==
    [id |-> "fig0", caption |-> "removed", filename |-> "", path |-> ""]

SlidePool ==
    { <<>>,
      [includes_figure |-> TRUE, figure_reference |-> StaleReference],
      [title |-> "Proposed Method", content |-> <<"our framework design">>,
       includes_figure |-> FALSE, figure_reference |-> None],
      [title |-> "Results",
       content |-> <<"performance of the system architecture overview">>,
       includes_figure |-> TRUE, figure_reference |-> PlannedReference],
      [title |-> "Ablation study", content |-> <<"workflow evolution over iterations">>,
       includes_figure |-> FALSE, figure_reference |-> PlannedReference],
      [content |-> <<"cross-modal attention", "GAN training">>] }

\* figure dicts without their id, which the position in the list gives
FigurePool ==
    { [caption |-> "Illustration of our proposed system architecture overview",
       filename |-> "arch.png", path |-> "images/arch.png"],
      [caption |-> "System diagram"],
      [caption |-> "Comparison of performance across baselines", description |-> "",
       filename |-> "perf.png"],
      [caption |-> "Workflow evolution over iterations"],
      [description |-> "architecture overview"],
      [caption |-> ""],
      [caption |-> "Cross-modal attention map", description |-> "GAN training process"] }

\* d[key] = val
Put(d, key, val) == [x \in DOMAIN d \cup {key} |-> IF x = key THEN val ELSE d[x]]

\* the fields of a dict that the classifiers and the score read
TextFields(d) ==
    [x \in DOMAIN d \cap {"title", "content", "caption", "description"} |-> d[x]]

SlideTexts == {TextFields(s) : s \in SlidePool}

FigureTexts == {TextFields(f) : f \in FigurePool}

\* classify_slide_type and calculate_compatibility_score over the model's texts
SlideTypeTable == [s \in SlideTexts |-> classify_slide_type(s)]

ScoreTable == [s \in SlideTexts, f \in FigureTexts |-> calculate_compatibility_score(s, f)]

SlideType(slide) == SlideTypeTable[TextFields(slide)]

Score(slide, figure) == ScoreTable[TextFields(slide), TextFields(figure)]

\* the architecture test over the model's texts
ArchitectureTable == [f \in FigureTexts |-> IsArchitectureFigure(f)]

IsArchitecture(figure) == ArchitectureTable[TextFields(figure)]

\* a detection that returns the qualifying figures last to first
RECURSIVE DetectBackwards(_, _)
DetectBackwards(figs, j) ==
    IF j > Len(figs) THEN <<>>
    ELSE DetectBackwards(figs, j + 1) \o (IF IsArchitecture(figs[j]) THEN <<j>> ELSE <<>>)

\* detect_architecture_figures: the qualifying figures in input order.  The
\* list holds the figure objects themselves, here their positions in figs.
RECURSIVE DetectFrom(_, _)
DetectFrom(figs, j) ==
    IF j > Len(figs) THEN <<>>
    ELSE (IF IsArchitecture(figs[j]) THEN <<j>> ELSE <<>>) \o DetectFrom(figs, j + 1)

detect_architecture_figures(figs) == DetectFrom(figs, 1)

\* a phase 2 that takes any positive score
AnyPositiveScore == Hundredths(0)

MIN_COMPATIBILITY_SCORE == Hundredths(25)

(***************************************************************************)
(* The state of one matcher and its caller.                                *)
(***************************************************************************)
VARIABLES
    pc,                   \* where optimize_figure_assignment stands
    heap,                 \* the slide dicts, by reference
    slides,               \* the caller's list: references into heap
    figures,              \* the caller's figure list
    architecture_figures, \* local: the detected architecture figures (positions in figures)
    used_figures,         \* local: the ids assigned so far
    optimized_slides,     \* local: slides.copy(), the same references
    pos,                  \* the index of the figure loop in progress
    returned,             \* the list returned by the call in progress
    input,                \* the slide dicts as they were when the call began
    first,                \* the first finished call: its input and outcome
    prev,                 \* the latest finished call: its input and outcome
    recalled,             \* whether the caller has called again
    returned_score,       \* what a call of calculate_compatibility_score returned
    classified,           \* what a call of a classifier returned
    workflow              \* the locals of TexWorkflow.process and what it returned

vars == <<pc, heap, slides, figures, architecture_figures, used_figures,
          optimized_slides, pos, returned, input, first, prev, recalled, returned_score,
          classified, workflow>>

\* the dicts a list of references points to
Deref(list) == [i \in 1..Len(list) |-> heap[list[i]]]

Init ==
    /\ pc = "ready"
    /\ \E n \in 0..MaxSlides : heap \in [1..n -> SlidePool]
    /\ slides = [i \in 1..Len(heap) |-> i]
    /\ \E m \in 0..MaxFigures :
           \E choice \in [1..m -> FigurePool] :
               figures = [j \in 1..m |-> Put(choice[j], "id", FigureId(j))]
    /\ architecture_figures = <<>>
    /\ used_figures = {}
    /\ optimized_slides = <<>>
    /\ pos = 0
    /\ returned = <<>>
    /\ input = heap
    /\ first = None
    /\ prev = None
    /\ recalled = FALSE
    /\ returned_score = None
    /\ classified = None
    /\ workflow = None

(***************************************************************************)
(* optimize_figure_assignment, one action per step: the entry (the empty   *)
(* check, detection, the copy), one architecture figure of phase 1, the    *)
(* reset, one figure of phase 2, the return.                               *)
(***************************************************************************)
\* slide.get('includes_figure', False)
HasFigure(slide) == Get(slide, "includes_figure", FALSE)

\* fig_ref.get('id', '') if fig_ref else '' : None and {} are falsy
CurrentFigId(slide) ==
    LET fig_ref == Get(slide, "figure_reference", None)
    IN  IF fig_ref # None /\ DOMAIN fig_ref # {} THEN Get(fig_ref, "id", "") ELSE ""

\* a reference whose caption is extended with the description
FigureReferenceWithDescription(figure) ==
    [id |-> figure["id"],
     caption |-> figure["caption"] \o " " \o Get(figure, "description", ""),
     filename |-> Get(figure, "filename", ""), path |-> Get(figure, "path", "")]

\* the dict written to figure_reference; figure['caption'] needs the key
FigureReference(figure) ==
    [id |-> figure["id"], caption |-> figure["caption"],
     filename |-> Get(figure, "filename", ""), path |-> Get(figure, "path", "")]

\* A call finishes with an outcome: the slides it returns or the error it raises.
Finished(outcome) ==
    /\ prev' = [input |-> input, outcome |-> outcome]
    /\ first' = IF first = None THEN prev' ELSE first

\* `not figures`: only the empty list is falsy
NoFiguresAlways(figs) == FALSE

NoFigures(figs) == Len(figs) = 0

\* used_figures = set(): a local of the call, empty at its start
UsedFiguresKept == used_figures

NewUsedFigures == {}

\* if not figures: return slides; else detect, used_figures = set(), slides.copy()
Entry ==
    /\ pc = "ready"
    /\ IF NoFigures(figures)
       THEN /\ pc' = "done"
            /\ returned' = slides
            /\ Finished([slides |-> Deref(slides)])
            /\ UNCHANGED <<architecture_figures, used_figures, optimized_slides, pos>>
       ELSE /\ pc' = "phase1"
            /\ architecture_figures' = detect_architecture_figures(figures)
            /\ used_figures' = NewUsedFigures
            /\ optimized_slides' = slides
            /\ pos' = 1
            /\ UNCHANGED <<returned, first, prev>>
    /\ UNCHANGED <<heap, slides, figures, input, recalled, returned_score,
                   classified, workflow>>

\* a phase 1 scan over the slides of every type
RECURSIVE ArchScanAnyType(_, _, _, _)
ArchScanAnyType(arch_fig, i, best_slide_idx, best_score) ==
    IF i > Len(optimized_slides) THEN best_slide_idx
    ELSE LET slide == heap[optimized_slides[i]]
             better == /\ Score(slide, arch_fig) > best_score
                       /\ arch_fig["id"] \notin used_figures
         IN  IF better THEN ArchScanAnyType(arch_fig, i + 1, i, Score(slide, arch_fig))
             ELSE ArchScanAnyType(arch_fig, i + 1, best_slide_idx, best_score)

\* The scan of phase 1 from slide i on; 0 is best_slide_idx = None.
RECURSIVE ArchScan(_, _, _, _)
ArchScan(arch_fig, i, best_slide_idx, best_score) ==
    IF i > Len(optimized_slides) THEN best_slide_idx
    ELSE LET slide == heap[optimized_slides[i]]
             better == /\ SlideType(slide) = "method"
                       /\ Score(slide, arch_fig) > best_score
                       /\ arch_fig["id"] \notin used_figures
         IN  IF better THEN ArchScan(arch_fig, i + 1, i, Score(slide, arch_fig))
             ELSE ArchScan(arch_fig, i + 1, best_slide_idx, best_score)

\* The scan of phase 2 from slide i on, skipping the slides that have a figure.
RECURSIVE GreedyScan(_, _, _, _)
GreedyScan(figure, i, best_slide_idx, best_score) ==
    IF i > Len(optimized_slides) THEN best_slide_idx
    ELSE LET slide == heap[optimized_slides[i]]
         IN  IF ~HasFigure(slide) /\ Score(slide, figure) > best_score
             THEN GreedyScan(figure, i + 1, i, Score(slide, figure))
             ELSE GreedyScan(figure, i + 1, best_slide_idx, best_score)

\* an assignment after which the loop takes the same figure again
AssignAndRetry(best_slide_idx, figure) ==
    LET ref == optimized_slides[best_slide_idx]
        flagged == [heap EXCEPT ![ref] = Put(@, "includes_figure", TRUE)]
    IN  IF "caption" \in DOMAIN figure
        THEN /\ heap' = [flagged EXCEPT
                            ![ref] = Put(@, "figure_reference", FigureReference(figure))]
             /\ used_figures' = used_figures \cup {figure["id"]}
             /\ UNCHANGED <<pc, first, prev, pos>>
        ELSE /\ heap' = flagged
             /\ pc' = "raised"
             /\ Finished([error |-> "KeyError"])
             /\ UNCHANGED <<used_figures, pos>>

\* The writes of an assignment: includes_figure, then figure_reference, whose
\* dict display raises KeyError for a figure without caption, then used_figures.
Assign(best_slide_idx, figure) ==
    LET ref == optimized_slides[best_slide_idx]
        flagged == [heap EXCEPT ![ref] = Put(@, "includes_figure", TRUE)]
    IN  IF "caption" \in DOMAIN figure
        THEN /\ heap' = [flagged EXCEPT
                            ![ref] = Put(@, "figure_reference", FigureReference(figure))]
             /\ used_figures' = used_figures \cup {figure["id"]}
             /\ pos' = pos + 1
             /\ UNCHANGED <<pc, first, prev>>
        ELSE /\ heap' = flagged
             /\ pc' = "raised"
             /\ Finished([error |-> "KeyError"])
             /\ UNCHANGED <<used_figures, pos>>

\* One iteration of `for arch_fig in architecture_figures`.
Phase1Step ==
    /\ pc = "phase1"
    /\ pos <= Len(architecture_figures)
    /\ LET arch_fig == figures[architecture_figures[pos]]
           best_slide_idx == ArchScan(arch_fig, 1, 0, 0)
       IN  IF best_slide_idx # 0
           THEN Assign(best_slide_idx, arch_fig)
           ELSE /\ pos' = pos + 1
                /\ UNCHANGED <<pc, heap, used_figures, first, prev>>
    /\ UNCHANGED <<slides, figures, architecture_figures, optimized_slides, returned, input,
                   recalled, returned_score,
                   classified, workflow>>

\* a reset that replaces the slide dict instead of writing two of its fields
ResetSlideReplaced(slide) ==
    IF CurrentFigId(slide) \notin used_figures
    THEN [includes_figure |-> FALSE, figure_reference |-> None]
    ELSE slide

\* no reset: every slide stays as phase 1 left it
ResetSlideSkipped(slide) == slide

\* a reset that clears the flag and leaves the reference
ResetSlideFlagOnly(slide) ==
    IF CurrentFigId(slide) \notin used_figures
    THEN Put(slide, "includes_figure", FALSE)
    ELSE slide

\* The reset loop: every slide whose current figure id is not in used_figures.
ResetSlide(slide) ==
    IF CurrentFigId(slide) \notin used_figures
    THEN Put(Put(slide, "includes_figure", FALSE), "figure_reference", None)
    ELSE slide

Reset ==
    /\ pc = "phase1"
    /\ pos > Len(architecture_figures)
    /\ heap' = [r \in DOMAIN heap |->
                   IF \E i \in 1..Len(optimized_slides) : optimized_slides[i] = r
                   THEN ResetSlide(heap[r]) ELSE heap[r]]
    /\ pc' = "phase2"
    /\ pos' = 1
    /\ UNCHANGED <<slides, figures, architecture_figures, used_figures, optimized_slides,
                   returned, input, first, prev, recalled, returned_score,
                   classified, workflow>>

\* One iteration of `for figure in figures`.
Phase2Step ==
    /\ pc = "phase2"
    /\ pos <= Len(figures)
    /\ LET figure == figures[pos]
           best_slide_idx == GreedyScan(figure, 1, 0, MIN_COMPATIBILITY_SCORE)
       IN  IF figure["id"] \notin used_figures /\ best_slide_idx # 0
           THEN Assign(best_slide_idx, figure)
           ELSE /\ pos' = pos + 1
                /\ UNCHANGED <<pc, heap, used_figures, first, prev>>
    /\ UNCHANGED <<slides, figures, architecture_figures, optimized_slides, returned, input,
                   recalled, returned_score,
                   classified, workflow>>

\* return optimized_slides
Return ==
    /\ pc = "phase2"
    /\ pos > Len(figures)
    /\ pc' = "done"
    /\ returned' = optimized_slides
    /\ Finished([slides |-> Deref(optimized_slides)])
    /\ UNCHANGED <<heap, slides, figures, architecture_figures, used_figures,
                   optimized_slides, pos, input, recalled, returned_score,
                   classified, workflow>>

\* The caller calls again with the same figures: on the slide objects it holds
\* (the ones the previous call returned), or on fresh dicts equal to the first
\* call's input.
CallAgain ==
    /\ pc \in {"done", "raised"}
    /\ \E fresh \in BOOLEAN : heap' = IF fresh THEN first.input ELSE heap
    /\ input' = heap'
    /\ pc' = "ready"
    /\ returned' = <<>>
    /\ recalled' = TRUE
    /\ UNCHANGED <<slides, figures, architecture_figures, used_figures, optimized_slides,
                   pos, first, prev, returned_score,
                   classified, workflow>>

\* One call of optimize_figure_assignment.
Next == Entry \/ Phase1Step \/ Reset \/ Phase2Step \/ Return

Spec == Init /\ [][Next]_vars

\* One call that runs on: the function is synchronous and single-threaded, so
\* whenever a step is possible the interpreter takes one.
SpecFair == Init /\ [][Next]_vars /\ WF_vars(Next)

\* The caller may call again, any number of times.
NextAgain == Entry \/ Phase1Step \/ Reset \/ Phase2Step \/ Return \/ CallAgain

SpecAgain == Init /\ [][NextAgain]_vars

\* the list in the opposite order
Reverse(list) == [i \in 1..Len(list) |-> list[Len(list) + 1 - i]]

\* The caller calls once more, on fresh dicts equal to the first call's input,
\* with the same figures in the opposite order.
CallPermuted ==
    /\ pc \in {"done", "raised"}
    /\ ~recalled
    /\ heap' = first.input
    /\ input' = heap'
    /\ figures' = Reverse(figures)
    /\ pc' = "ready"
    /\ returned' = <<>>
    /\ recalled' = TRUE
    /\ UNCHANGED <<slides, architecture_figures, used_figures, optimized_slides, pos,
                   first, prev, returned_score,
                   classified, workflow>>

NextPermuted == Entry \/ Phase1Step \/ Reset \/ Phase2Step \/ Return \/ CallPermuted

SpecPermuted == Init /\ [][NextPermuted]_vars

(***************************************************************************)
(* calculate_compatibility_score on its own: one call on one slide and one *)
(* figure, drawn from the texts of the pools and from further texts that   *)
(* reach every entry of the type table, every cap and every exclusion.     *)
(***************************************************************************)
ScoreSlidePool ==
    SlideTexts \cup
    { [title |-> "Method", content |-> <<"system model overview of the architecture">>],
      [title |-> "Background", content |-> <<"the overfitting problem">>],
      [title |-> "Ablation analysis",
       content |-> <<"iteration process over iterations", "workflow evolution">>],
      [title |-> "Conclusion", content |-> <<"summary and future work">>],
      [title |-> "Experiment", content |-> <<"generated example output">>] }

ScoreFigurePool ==
    FigureTexts \cup
    { [caption |-> "System model overview of the architecture"],
      [caption |-> "Overfitting problem and artifact issue"],
      [caption |-> "Generated example output of style transfer"],
      [caption |-> "Iteration process", description |-> "Workflow evolution over iterations"],
      [caption |-> "Visualization of the attention mechanism detail"] }

InitScore ==
    /\ pc = "scoring"
    /\ \E slide \in ScoreSlidePool : heap = <<slide>>
    /\ slides = <<1>>
    /\ \E figure \in ScoreFigurePool : figures = <<Put(figure, "id", FigureId(1))>>
    /\ architecture_figures = <<>>
    /\ used_figures = {}
    /\ optimized_slides = <<>>
    /\ pos = 0
    /\ returned = <<>>
    /\ input = heap
    /\ first = None
    /\ prev = None
    /\ recalled = FALSE
    /\ returned_score = None
    /\ classified = None
    /\ workflow = None

\* score = self.calculate_compatibility_score(slide, figure)
ScoreCall ==
    /\ pc = "scoring"
    /\ returned_score' = calculate_compatibility_score(heap[1], figures[1])
    /\ pc' = "scored"
    /\ UNCHANGED <<heap, slides, figures, architecture_figures, used_figures,
                   optimized_slides, pos, returned, input, first, prev, recalled,
                   classified, workflow>>

NextScore == ScoreCall

SpecScore == InitScore /\ [][NextScore]_vars

(***************************************************************************)
(* The classifiers and _extract_important_terms on their own: one call on  *)
(* one slide, one figure or one text, drawn from the texts of the score    *)
(* pools and from further texts with ties between the tags, capitals,      *)
(* short words, digits and hyphens.                                        *)
(***************************************************************************)
ClassifySlidePool ==
    ScoreSlidePool \cup
    { [title |-> "Problem and Approach"],
      [title |-> "Evaluation Summary", content |-> <<"future work">>],
      [title |-> "METHODOLOGY"],
      [title |-> "Impact", content |-> <<"limitation of the approach", "future summary">>],
      [title |-> "Related Work", content |-> <<"prior studies">>],
      [title |-> "A study of GAN training", content |-> <<"our x-ray CT and MRI data">>] }

ClassifyFigurePool ==
    ScoreFigurePool \cup
    { [caption |-> "Overfitting artifact problem issue challenge", description |-> "system"],
      [caption |-> "Attention map", description |-> "model"],
      [caption |-> "Result"],
      [caption |-> "A photo"],
      [caption |-> "Qualitative and quantitative evaluation result comparison"],
      [caption |-> "TEACHER MODEL"],
      [caption |-> "", description |-> ""],
      [caption |-> "We use deep state-of-the-art models", description |-> "a_b c1 12 ab"] }

InitClassify ==
    /\ pc = "classifying"
    /\ \E slide \in ClassifySlidePool : heap = <<slide>>
    /\ slides = <<1>>
    /\ \E figure \in ClassifyFigurePool : figures = <<Put(figure, "id", FigureId(1))>>
    /\ architecture_figures = <<>>
    /\ used_figures = {}
    /\ optimized_slides = <<>>
    /\ pos = 0
    /\ returned = <<>>
    /\ input = heap
    /\ first = None
    /\ prev = None
    /\ recalled = FALSE
    /\ returned_score = None
    /\ classified = None
    /\ workflow = None

\* a call has returned value for the argument arg
Classified(call, arg, value) ==
    /\ pc = "classifying"
    /\ classified' = [call |-> call, arg |-> arg, value |-> value]
    /\ pc' = "classified"
    /\ UNCHANGED <<heap, slides, figures, architecture_figures, used_figures,
                   optimized_slides, pos, returned, input, first, prev, recalled,
                   returned_score, workflow>>

\* slide_type = self.classify_slide_type(slide)
ClassifySlideCall == Classified("classify_slide_type", heap[1], classify_slide_type(heap[1]))

\* figure_type, figure_confidence = self.classify_figure_type(figure)
ClassifyFigureCall ==
    Classified("classify_figure_type", figures[1], classify_figure_type(figures[1]))

\* self._extract_important_terms(text): on the lower-cased texts, as the score
\* calls it, and on a title or a caption as written
ExtractTermsCall ==
    \E text \in {SlideText(heap[1]), FigureText(figures[1]),
                 Get(heap[1], "title", ""), Get(figures[1], "caption", "")} :
        Classified("extract_important_terms", text, extract_important_terms(text))

NextClassify == ClassifySlideCall \/ ClassifyFigureCall \/ ExtractTermsCall

SpecClassify == InitClassify /\ [][NextClassify]_vars

(***************************************************************************)
(* TexWorkflow.process (src/modules/tex_workflow.py): the preparation      *)
(* (plan, images, first TEX code), then the loop of validation attempts    *)
(* with a repair between two attempts.  The validator, the generator and   *)
(* the file system are the environment: a validation succeeds, fails or    *)
(* raises, a repair returns or raises, and an exception anywhere ends the  *)
(* call in the except clause.  The record counts the calls made.           *)
(***************************************************************************)
MaxRetries == 5

InitWorkflow ==
    /\ pc = "process"
    /\ heap = <<>>
    /\ slides = <<>>
    /\ figures = <<>>
    /\ architecture_figures = <<>>
    /\ used_figures = {}
    /\ optimized_slides = <<>>
    /\ pos = 0
    /\ returned = <<>>
    /\ input = heap
    /\ first = None
    /\ prev = None
    /\ recalled = FALSE
    /\ returned_score = None
    /\ classified = None
    /\ \E max_retries \in -1..MaxRetries, skip_compilation \in BOOLEAN :
           workflow = [at |-> "start", max_retries |-> max_retries,
                       skip_compilation |-> skip_compilation, attempt |-> 0,
                       success |-> FALSE, validations |-> 0, succeeded |-> 0, failed |-> 0,
                       repairs |-> 0, result |-> None, message |-> ""]

\* process returns (success status, message, path)
ProcessReturns(w, status, message) ==
    workflow' = [w EXCEPT !.at = "returned", !.result = status, !.message = message]

\* except Exception as e: return False, "TEX workflow execution error: ...", None
ProcessRaises(w) == ProcessReturns(w, FALSE, "TEX workflow execution error")

MatcherUnchanged ==
    UNCHANGED <<pc, heap, slides, figures, architecture_figures, used_figures,
                optimized_slides, pos, returned, input, first, prev, recalled,
                returned_score, classified>>

\* Steps 1 to 4: load the plan, preprocess the images, generate and save the
\* TEX code, return at once when compilation is skipped; then success = False
\* and the loop starts at attempt 1.
Prepare ==
    /\ workflow.at = "start"
    /\ \E outcome \in {"no plan", "no tex", "raised", "generated"} :
           CASE outcome = "no plan" ->
                    ProcessReturns(workflow, FALSE, "Unable to load presentation plan")
             [] outcome = "no tex" ->
                    ProcessReturns(workflow, FALSE, "TEX code generation failed")
             [] outcome = "raised" -> ProcessRaises(workflow)
             [] OTHER ->
                    IF workflow.skip_compilation
                    THEN ProcessReturns(workflow, TRUE,
                                        "TEX generation successful (compilation skipped)")
                    ELSE workflow' = [workflow EXCEPT !.at = "loop", !.attempt = 1,
                                                      !.success = FALSE]
    /\ MatcherUnchanged

\* a repair after every failed validation, the last one included
AnyAttempt(w) == w.attempt <= w.max_retries

\* if attempt < self.max_retries
NotLastAttempt(w) == w.attempt < w.max_retries

\* One validation: self.tex_validator.validate(output_tex) of the attempt.
Validate ==
    /\ workflow.at = "loop"
    /\ workflow.attempt <= workflow.max_retries
    /\ LET called == [workflow EXCEPT !.validations = @ + 1]
       IN  \E outcome \in {"valid", "invalid", "raised"} :
               CASE outcome = "valid" ->
                        workflow' = [called EXCEPT !.succeeded = @ + 1, !.success = TRUE,
                                                   !.at = "after loop"]
                 [] outcome = "invalid" ->
                        workflow' = [called EXCEPT
                                        !.failed = @ + 1,
                                        !.at = IF NotLastAttempt(workflow)
                                               THEN "fixing" ELSE "loop",
                                        !.attempt = IF NotLastAttempt(workflow)
                                                    THEN @ ELSE @ + 1]
                 [] OTHER -> ProcessRaises(called)
    /\ MatcherUnchanged

\* The repair of a failed attempt: read the TEX file, fix_tex_code, write the
\* fixed code, sleep, next attempt.
Fix ==
    /\ workflow.at = "fixing"
    /\ LET called == [workflow EXCEPT !.repairs = @ + 1]
       IN  \E outcome \in {"unreadable", "raised", "fixed"} :
               CASE outcome = "unreadable" -> ProcessRaises(workflow)
                 [] outcome = "raised" -> ProcessRaises(called)
                 [] OTHER -> workflow' = [called EXCEPT !.at = "loop", !.attempt = @ + 1]
    /\ MatcherUnchanged

\* the range of the for loop is exhausted
LoopEnds ==
    /\ workflow.at = "loop"
    /\ workflow.attempt > workflow.max_retries
    /\ workflow' = [workflow EXCEPT !.at = "after loop"]
    /\ MatcherUnchanged

\* if success: return True, ...  else: return False, "After ... attempts ..."
ReturnResult ==
    /\ workflow.at = "after loop"
    /\ IF workflow.success
       THEN ProcessReturns(workflow, TRUE, "TEX generation and compilation successful")
       ELSE ProcessReturns(workflow, FALSE, "After max_retries attempts, still unable to fix TEX code")
    /\ MatcherUnchanged

NextWorkflow == Prepare \/ Validate \/ Fix \/ LoopEnds \/ ReturnResult

SpecWorkflow == InitWorkflow /\ [][NextWorkflow]_vars

(***************************************************************************)
(* Vocabulary of the properties.                                           *)
(***************************************************************************)
\* the ids of the figure list
FigureIds == {figures[j]["id"] : j \in 1..Len(figures)}

\* slide carries a figure_reference naming id
References(slide, id) ==
    /\ Get(slide, "figure_reference", None) # None
    /\ Get(Get(slide, "figure_reference", None), "id", "") = id

\* slide holds a figure: the flag is set and the reference is not null
HoldsFigure(slide) == HasFigure(slide) /\ Get(slide, "figure_reference", None) # None

\* the positions in the returned list of the slides that reference id
Holders(id) == {i \in 1..Len(returned) : References(heap[returned[i]], id)}

\* the positions of the slides classified as method
MethodSlides == {i \in 1..Len(slides) : SlideType(heap[slides[i]]) = "method"}

\* the positions of the architecture figures
ArchPositions == {j \in 1..Len(figures) : IsArchitecture(figures[j])}

\* phase 1 finds a slide for figure j: an architecture figure with a method
\* slide that scores above 0
Phase1Places(j) ==
    /\ j \in ArchPositions
    /\ \E i \in MethodSlides : Score(heap[slides[i]], figures[j]) > 0

\* every slide scores below 0.25 against figure j
BelowThreshold(j) ==
    \A i \in 1..Len(slides) : Score(heap[slides[i]], figures[j]) < Hundredths(25)

Returned == pc = "done" /\ figures # <<>>

(***************************************************************************)
(* C1: in the returned list no two slides carry a figure_reference with    *)
(* the same figure id (stated for a non-empty figure list, where the       *)
(* assignment runs).  Violated: a slide that arrives referencing a figure  *)
(* which phase 1 then puts on another slide keeps its reference through    *)
(* the reset.                                                              *)
(***************************************************************************)
C1_NoSharedFigure ==
    Returned =>
        \A a \in 1..Len(returned), b \in 1..Len(returned) :
            a # b => \A id \in FigureIds :
                         ~(References(heap[returned[a]], id) /\ References(heap[returned[b]], id))

(***************************************************************************)
(* C2, as claimed: a figure that scores below 0.25 against every slide is  *)
(* referenced by no output slide.  Violated by an architecture figure that *)
(* phase 1 places with a score in (0, 0.25).                               *)
(***************************************************************************)
C2_BelowThresholdUnassigned ==
    Returned => \A j \in 1..Len(figures) : BelowThreshold(j) => Holders(figures[j]["id"]) = {}

(***************************************************************************)
(* C2, amended: a figure that scores below 0.25 against every slide and    *)
(* that phase 1 does not place is referenced by no output slide.           *)
(***************************************************************************)
C2_BelowThresholdUnassignedAfterPhase1 ==
    Returned =>
        \A j \in 1..Len(figures) :
            BelowThreshold(j) /\ ~Phase1Places(j) => Holders(figures[j]["id"]) = {}

\* a returned run with a figure that scores in (0, 0.25) against a slide left
\* without figure, is not placed by phase 1, and stays unassigned
C2_Witness ==
    /\ Returned
    /\ \E j \in 1..Len(figures) :
           /\ BelowThreshold(j) /\ ~Phase1Places(j)
           /\ \E i \in 1..Len(slides) :
                  /\ Score(heap[slides[i]], figures[j]) > 0
                  /\ ~HasFigure(heap[slides[i]])
           /\ Holders(figures[j]["id"]) = {}

(***************************************************************************)
(* C3: the call never raises.  Violated: figure['caption'] raises KeyError *)
(* when a figure without caption wins an assignment.                       *)
(***************************************************************************)
C3_NeverRaises == pc # "raised"

(***************************************************************************)
(* C4: with exactly one architecture figure and a method slide scoring     *)
(* above 0 against it, the call ends with that figure on a method slide of *)
(* maximal score among the method slides.  Violated only through C3: the   *)
(* write raises when the architecture figure has no caption.               *)
(***************************************************************************)
ArchFigureOnBestMethodSlide ==
    \A j \in ArchPositions :
        \E i \in MethodSlides :
            /\ References(heap[slides[i]], figures[j]["id"])
            /\ HasFigure(heap[slides[i]])
            /\ \A other \in MethodSlides :
                   Score(heap[slides[other]], figures[j]) <= Score(heap[slides[i]], figures[j])

C4_ArchitecturePriority ==
    (/\ pc \in {"done", "raised"}
     /\ Cardinality(ArchPositions) = 1
     /\ \E j \in ArchPositions : Phase1Places(j))
        => ArchFigureOnBestMethodSlide

\* the same on the runs that return: there the claim holds
C4_ArchitecturePriorityOnReturn ==
    (/\ pc = "done"
     /\ Cardinality(ArchPositions) = 1
     /\ \E j \in ArchPositions : Phase1Places(j))
        => ArchFigureOnBestMethodSlide

(***************************************************************************)
(* C5: two finished calls with equal slides (and the same figures) have    *)
(* equal outcomes: the same slides in the same order with the same figure  *)
(* fields, or the same error.                                              *)
(***************************************************************************)
C5_Deterministic ==
    (first # None /\ prev # None /\ prev.input = first.input)
        => prev.outcome = first.outcome

\* a second call on fresh copies of the first input has returned, having
\* assigned a figure, although the first call had left its slides changed
C5_Witness ==
    /\ recalled /\ pc = "done"
    /\ prev.input = first.input
    /\ used_figures # {}
    /\ first.outcome # [slides |-> first.input]

(***************************************************************************)
(* C6: at the end every id in used_figures is referenced by exactly one    *)
(* output slide and every other figure by none.  Violated: two             *)
(* architecture figures can win the same method slide in phase 1, the      *)
(* second overwriting the first, and both are recorded as used.            *)
(***************************************************************************)
C6_UsedFiguresAreReferencedOnce ==
    Returned =>
        \A id \in FigureIds :
            IF id \in used_figures THEN Cardinality(Holders(id)) = 1 ELSE Holders(id) = {}

(***************************************************************************)
(* C7: the number of output slides that hold a figure is at most           *)
(* min(number of slides, number of figures) (stated for a non-empty figure *)
(* list).  Violated: one figure ends on two slides, as in C1.              *)
(***************************************************************************)
C7_AssignedCountBounded ==
    Returned =>
        Cardinality({i \in 1..Len(returned) : HoldsFigure(heap[returned[i]])})
            <= Min(Len(returned), Len(figures))

(***************************************************************************)
(* C8: with an empty figure list the call returns at once, raising         *)
(* nothing: the list it was given, every slide dict as it was.             *)
(***************************************************************************)
C8_EmptyFiguresNoOp ==
    figures = <<>> =>
        /\ pc \in {"ready", "done"}
        /\ pc = "done" => (returned = slides /\ heap = input)

\* returned with no figures, a slide still carrying the figure the planner set
C8_Witness ==
    /\ pc = "done" /\ figures = <<>>
    /\ \E i \in 1..Len(returned) : HoldsFigure(heap[returned[i]])

(***************************************************************************)
(* C9: the call leaves the caller's slide dicts with the fields and values *)
(* they had.  Violated: slides.copy() copies the list, not the dicts, and  *)
(* the reset and the assignments write into the caller's dicts.            *)
(***************************************************************************)
C9_InputSlidesUntouched == pc = "done" => heap = input

(***************************************************************************)
(* C10: the score of every slide/figure pair is at most 1.0, and it is not *)
(* floored at 0: when the exclusion penalties outweigh the positive        *)
(* contributions the score is their negative difference.                   *)
(***************************************************************************)
PositiveContributions(slide, figure) ==
    SemanticScore(slide, figure) + TypeScore(slide, figure) + OverlapScore(slide, figure)
        + ArchitectureBonus(slide, figure)

\* the two sides of the score for the texts of the pools, computed once
PositiveTable == [s \in SlideTexts, f \in FigureTexts |-> PositiveContributions(s, f)]

PenaltyTable == [s \in SlideTexts, f \in FigureTexts |-> ExclusionPenalty(s, f)]

Positive(slide, figure) == PositiveTable[TextFields(slide), TextFields(figure)]

Penalty(slide, figure) == PenaltyTable[TextFields(slide), TextFields(figure)]

C10_ScoreAtMostOneNotFloored ==
    \A i \in 1..Len(slides), j \in 1..Len(figures) :
        LET s == TextFields(heap[slides[i]])
            f == TextFields(figures[j])
        IN  /\ ScoreTable[s, f] <= Hundredths(100)
            /\ PositiveTable[s, f] < PenaltyTable[s, f]
                   => /\ ScoreTable[s, f] < 0
                      /\ ScoreTable[s, f] = PositiveTable[s, f] - PenaltyTable[s, f]

\* phase 2 has just scored a figure against a free slide and found a negative
\* score although the pair has positive contributions
C10_Witness ==
    /\ pc = "phase2" /\ pos > 1
    /\ figures[pos - 1]["id"] \notin used_figures
    /\ \E i \in 1..Len(optimized_slides) :
           /\ ~HasFigure(heap[optimized_slides[i]])
           /\ Score(heap[optimized_slides[i]], figures[pos - 1]) < 0
           /\ Positive(heap[optimized_slides[i]], figures[pos - 1]) > 0

(***************************************************************************)
(* C11: every step that assigns a figure (records its id in used_figures)  *)
(* writes exactly two fields of one slide: includes_figure = true and a    *)
(* figure_reference with the figure's id and caption as they are and its   *)
(* filename and path, "" where the figure has none.                        *)
(***************************************************************************)
\* the reference the matched figure is to be copied into
CopyOf(figure) ==
    [id |-> figure["id"], caption |-> figure["caption"],
     filename |-> IF "filename" \in DOMAIN figure THEN figure["filename"] ELSE "",
     path |-> IF "path" \in DOMAIN figure THEN figure["path"] ELSE ""]

C11_ReferenceCopiesFigure ==
    [][\A j \in 1..Len(figures) :
           figures[j]["id"] \in used_figures' \ used_figures =>
               \E r \in DOMAIN heap :
                   heap' = [heap EXCEPT
                               ![r] = Put(Put(@, "includes_figure", TRUE),
                                          "figure_reference", CopyOf(figures[j]))]]_vars

\* returned with a figure that has a caption but neither filename nor path on
\* a slide, and another slide or figure aside
C11_Witness ==
    /\ pc = "done"
    /\ \E i \in 1..Len(returned), j \in 1..Len(figures) :
           /\ figures[j]["id"] \in used_figures
           /\ DOMAIN figures[j] = {"id", "caption"}
           /\ HasFigure(heap[returned[i]])
           /\ heap[returned[i]]["figure_reference"] =
                  [id |-> figures[j]["id"], caption |-> figures[j]["caption"],
                   filename |-> "", path |-> ""]

(***************************************************************************)
(* C12: the call writes only includes_figure and figure_reference: every   *)
(* other field of every slide stays as it was on input, the list keeps its *)
(* slides in their order, and no figure is modified.                       *)
(***************************************************************************)
\* a slide without the two figure fields
OtherFields(slide) ==
    [x \in DOMAIN slide \ {"includes_figure", "figure_reference"} |-> slide[x]]

C12_OnlyFigureFieldsWritten ==
    /\ [](/\ Len(heap) = Len(input)
          /\ \A r \in DOMAIN heap : OtherFields(heap[r]) = OtherFields(input[r])
          /\ pc = "done" => returned = slides)
    /\ [][figures' = figures /\ slides' = slides]_vars

\* returned: a slide with a title had its figure fields cleared by the reset,
\* another slide was given a figure
C12_Witness ==
    /\ pc = "done"
    /\ \E a \in DOMAIN heap, b \in DOMAIN heap :
           /\ "title" \in DOMAIN heap[a]
           /\ HoldsFigure(input[a]) /\ ~HasFigure(heap[a])
           /\ ~HoldsFigure(input[b]) /\ HoldsFigure(heap[b])


(***************************************************************************)
(* C13: within one run the first assignment to a slide wins: a slide that  *)
(* holds a figure assigned in this run keeps that figure_reference in      *)
(* every later step.  Violated: phase 1 scans every method slide, also one *)
(* that an earlier architecture figure was assigned to, and overwrites it. *)
(***************************************************************************)
C13_FirstAssignmentWins ==
    [][\A r \in DOMAIN heap :
           (/\ pc \in {"phase1", "phase2"}
            /\ HasFigure(heap[r])
            /\ CurrentFigId(heap[r]) \in used_figures)
               => heap'[r]["figure_reference"] = heap[r]["figure_reference"]]_vars

(***************************************************************************)
(* C14: after the reset and before the first figure of phase 2, every      *)
(* slide either holds the architecture figure phase 1 assigned to it or    *)
(* has includes_figure = false and figure_reference = null.  Violated: the *)
(* reset keeps what a slide carried on input when the id it names is one   *)
(* that phase 1 used.                                                      *)
(***************************************************************************)
AfterReset == pc = "phase2" /\ pos = 1

AssignedInPhase1(slide) ==
    /\ HasFigure(slide)
    /\ SlideType(slide) = "method"
    /\ \E j \in ArchPositions :
           /\ figures[j]["id"] \in used_figures
           /\ Get(slide, "figure_reference", None) = CopyOf(figures[j])

Cleared(slide) ==
    /\ "includes_figure" \in DOMAIN slide /\ ~slide["includes_figure"]
    /\ "figure_reference" \in DOMAIN slide /\ slide["figure_reference"] = None

C14_ResetKeepsOnlyPhase1 ==
    AfterReset =>
        \A i \in 1..Len(optimized_slides) :
            \/ AssignedInPhase1(heap[optimized_slides[i]])
            \/ Cleared(heap[optimized_slides[i]])


(***************************************************************************)
(* C15: phase 2 takes the figures in input order; a figure not used so far *)
(* goes to the slide with the highest score among the slides that have no  *)
(* figure at that moment, the lowest index on a tie, if and only if that   *)
(* score is above 0.25; otherwise nothing is written.  Violated only       *)
(* through C3: the write raises when the figure has no caption.            *)
(***************************************************************************)
\* the positions of the slides without figure
FreeSlides == {i \in 1..Len(optimized_slides) : ~HasFigure(heap[optimized_slides[i]])}

\* the free slides of maximal score against figure
BestFreeSlides(figure) ==
    {i \in FreeSlides :
        \A other \in FreeSlides :
            Score(heap[optimized_slides[other]], figure)
                <= Score(heap[optimized_slides[i]], figure)}

\* the lowest position of a non-empty set of positions
Lowest(positions) == CHOOSE i \in positions : \A other \in positions : i <= other

\* the step of phase 2 for the figure at pos does what the claim says
GreedyStepAsClaimed ==
    LET figure == figures[pos]
        best == BestFreeSlides(figure)
    IN  IF /\ figure["id"] \notin used_figures
           /\ best # {}
           /\ Score(heap[optimized_slides[Lowest(best)]], figure) > Hundredths(25)
        THEN /\ pc' = "phase2" /\ pos' = pos + 1
             /\ used_figures' = used_figures \cup {figure["id"]}
             /\ heap' = [heap EXCEPT
                            ![optimized_slides[Lowest(best)]] =
                                Put(Put(@, "includes_figure", TRUE),
                                    "figure_reference", CopyOf(figure))]
        ELSE /\ pc' = "phase2" /\ pos' = pos + 1
             /\ used_figures' = used_figures
             /\ heap' = heap

C15_Phase2Greedy ==
    [][(pc = "phase2" /\ pos <= Len(figures)) => GreedyStepAsClaimed]_vars

\* the same for the figures that have a caption: there the claim holds
C15_Phase2GreedyWithCaption ==
    [][(pc = "phase2" /\ pos <= Len(figures) /\ "caption" \in DOMAIN figures[pos])
           => GreedyStepAsClaimed]_vars

\* phase 2 has left a figure unassigned whose best score is exactly 0.25
C15_ExactThresholdLeftOut ==
    /\ pc = "phase2" /\ pos > 1
    /\ figures[pos - 1]["id"] \notin used_figures
    /\ BestFreeSlides(figures[pos - 1]) # {}
    /\ \E i \in BestFreeSlides(figures[pos - 1]) :
           Score(heap[optimized_slides[i]], figures[pos - 1]) = Hundredths(25)


(***************************************************************************)
(* C16: an assignment made in phase 1 puts an architecture figure on a     *)
(* method slide whose score against it is above 0 and maximal among the    *)
(* method slides; phase 2 writes nothing for a figure that is already      *)
(* used; an architecture figure that phase 1 cannot place is unused when   *)
(* phase 2 starts, and whatever phase 2 assigns scores above 0.25.         *)
(***************************************************************************)
\* the figure at position j is assigned in this step
AssignedNow(j) == figures[j]["id"] \in used_figures' \ used_figures

\* position i of the list receives the figure at position j in this step
Receives(i, j) ==
    /\ HasFigure(heap'[optimized_slides[i]])
    /\ heap'[optimized_slides[i]]["figure_reference"]["id"] = figures[j]["id"]
    /\ heap'[optimized_slides[i]] # heap[optimized_slides[i]]

C16_Phase1ThenPhase2 ==
    /\ [][\A j \in 1..Len(figures) :
              (pc = "phase1" /\ AssignedNow(j)) =>
                  /\ j \in ArchPositions
                  /\ \E i \in MethodSlides :
                         /\ Receives(i, j)
                         /\ Score(heap[slides[i]], figures[j]) > 0
                         /\ \A other \in MethodSlides :
                                Score(heap[slides[other]], figures[j])
                                    <= Score(heap[slides[i]], figures[j])]_vars
    /\ [][(pc = "phase2" /\ pos <= Len(figures) /\ figures[pos]["id"] \in used_figures)
              => (heap' = heap /\ used_figures' = used_figures)]_vars
    /\ [][\A j \in 1..Len(figures) :
              (pc = "phase2" /\ AssignedNow(j)) =>
                  \E i \in 1..Len(slides) :
                      /\ Receives(i, j)
                      /\ Score(heap[slides[i]], figures[j]) > Hundredths(25)]_vars
    /\ [](AfterReset =>
              \A j \in ArchPositions : ~Phase1Places(j) => figures[j]["id"] \notin used_figures)

\* returned: an architecture figure that phase 1 could not place (no method
\* slide) was assigned in phase 2, to a slide of another type
C16_Witness ==
    /\ pc = "done"
    /\ \E j \in ArchPositions :
           /\ ~Phase1Places(j)
           /\ figures[j]["id"] \in used_figures
           /\ \E i \in 1..Len(returned) :
                  /\ References(heap[returned[i]], figures[j]["id"])
                  /\ SlideType(heap[returned[i]]) # "method"
                  /\ Score(heap[returned[i]], figures[j]) > Hundredths(25)


(***************************************************************************)
(* C17: phase 2 depends on the order of the figures.  When phase 1 places  *)
(* nothing, the returned assignment is a one-to-one matching of pairs that *)
(* each score above 0.25, so its total score is at most that of a          *)
(* maximum-weight matching; there are inputs where it is strictly less and *)
(* where the figures in another order give the slides other figures.       *)
(***************************************************************************)
\* the position in figures of the figure a slide holds, 0 for none
HeldFigure(slide) ==
    IF HoldsFigure(slide) /\ \E j \in 1..Len(figures) : References(slide, figures[j]["id"])
    THEN CHOOSE j \in 1..Len(figures) : References(slide, figures[j]["id"])
    ELSE 0

\* the sum of the scores of the pairs (slide i, figure of[i]) for i up to n
RECURSIVE TotalScore(_, _, _)
TotalScore(list, of, n) ==
    IF n = 0 THEN 0
    ELSE TotalScore(list, of, n - 1)
             + (IF of[n] = 0 THEN 0 ELSE Score(list[n], figures[of[n]]))

\* the figure ids the slides of a list hold
Assignment(list) ==
    [i \in 1..Len(list) |->
        IF HeldFigure(list[i]) = 0 THEN "" ELSE figures[HeldFigure(list[i])]["id"]]

\* the total score of the assignment a list of slides carries
GreedyTotal(list) == TotalScore(list, [i \in 1..Len(list) |-> HeldFigure(list[i])], Len(list))

\* the one-to-one partial matchings of the figures to the slides of a list
\* whose pairs all score above least
Matchings(list, least) ==
    {of \in [1..Len(list) -> 0..Len(figures)] :
        /\ \A a \in 1..Len(list), b \in 1..Len(list) : (a # b /\ of[a] # 0) => of[a] # of[b]
        /\ \A a \in 1..Len(list) : of[a] # 0 => Score(list[a], figures[of[a]]) > least}

\* the total of a maximum-weight matching
BestTotal(list, least) ==
    LET totals == {TotalScore(list, of, Len(list)) : of \in Matchings(list, least)}
    IN  CHOOSE best \in totals : \A other \in totals : other <= best

Phase1PlacesNothing == \A j \in 1..Len(figures) : ~Phase1Places(j)

C17_GreedyAtMostBest ==
    (Returned /\ Phase1PlacesNothing) =>
        LET list == Deref(returned)
        IN  /\ [i \in 1..Len(list) |-> HeldFigure(list[i])] \in Matchings(list, Hundredths(25))
            /\ GreedyTotal(list) <= BestTotal(list, Hundredths(25))

\* both orders of two different figures have returned: a slide holds another
\* figure in the second order, whose total is below that of a maximum-weight
\* matching of pairs that phase 2 could have made
C17_Witness ==
    /\ recalled /\ Returned /\ Phase1PlacesNothing
    /\ "slides" \in DOMAIN first.outcome
    /\ Assignment(first.outcome.slides) # Assignment(Deref(returned))
    /\ \A a \in 1..Len(figures), b \in 1..Len(figures) :
           a # b => TextFields(figures[a]) # TextFields(figures[b])
    /\ GreedyTotal(Deref(returned)) < BestTotal(Deref(returned), Hundredths(25))


(***************************************************************************)
(* C18: the returned score is min(1.0, S + T*c + W + A - 0.3*k) with       *)
(* S = min(0.15 * shared important terms, 0.4), T the type table entry     *)
(* (0.05 when unlisted), c the figure's confidence, W = min(0.05 * shared  *)
(* whitespace tokens outside the stop list, 0.2), A = 0.1 for a figure     *)
(* text with architecture, framework or overview on a method slide, and k  *)
(* the number of matching exclusion triples.                               *)
(***************************************************************************)
Scored == pc = "scored"

SharedImportantTerms(slide, figure) ==
    extract_important_terms(SlideText(slide)) \cap extract_important_terms(FigureText(figure))

SharedTokens(slide, figure) ==
    (SplitWords(SlideText(slide)) \cap SplitWords(FigureText(figure)))
        \ {"the", "a", "an", "and", "or", "but", "in", "on", "at", "to", "for", "of",
           "with", "by"}

C18_ScoreFormula ==
    Scored =>
        LET slide == heap[1]
            figure == figures[1]
            slide_type == classify_slide_type(slide)
            fig == classify_figure_type(figure)
            S == Min(Hundredths(15) * Cardinality(SharedImportantTerms(slide, figure)),
                     Hundredths(40))
            Tc == (Hundredths(type_compatibility(slide_type, fig.type)) * fig.confidence) \div 30
            W == Min(Hundredths(5) * Cardinality(SharedTokens(slide, figure)), Hundredths(20))
            A == IF /\ slide_type = "method"
                    /\ \E word \in {"architecture", "framework", "overview"} :
                           Contains(FigureText(figure), word)
                 THEN Hundredths(10) ELSE 0
            k == MatchingExclusions(slide, figure)
        IN  returned_score = Min(Hundredths(100), S + Tc + W + A - Hundredths(30) * k)

\* a score in which all of S, T*c, W and k act, S and W at their caps
C18_Witness ==
    /\ Scored
    /\ Cardinality(SharedImportantTerms(heap[1], figures[1])) > 2
    /\ Cardinality(SharedTokens(heap[1], figures[1])) > 4
    /\ TypeScore(heap[1], figures[1]) > 0
    /\ MatchingExclusions(heap[1], figures[1]) > 0

(***************************************************************************)
(* C19: each exclusion triple whose slide keyword is in the slide text and *)
(* whose two figure keywords are in the figure text takes exactly 0.3 off  *)
(* the score before the clamp; the penalties of several triples add up and *)
(* the other contributions are what they are without a penalty.            *)
(***************************************************************************)
\* the number of the three triples that match, one test per triple
MatchingTriples(slide, figure) ==
    (IF /\ Contains(SlideText(slide), "ablation")
        /\ Contains(FigureText(figure), "workflow")
        /\ Contains(FigureText(figure), "evolution") THEN 1 ELSE 0)
    + (IF /\ Contains(SlideText(slide), "ablation")
          /\ Contains(FigureText(figure), "iteration")
          /\ Contains(FigureText(figure), "process") THEN 1 ELSE 0)
    + (IF /\ Contains(SlideText(slide), "ablation")
          /\ Contains(FigureText(figure), "over")
          /\ Contains(FigureText(figure), "iterations") THEN 1 ELSE 0)

C19_PenaltiesAddUp ==
    Scored =>
        /\ RawScore(heap[1], figures[1]) =
               PositiveContributions(heap[1], figures[1])
                   - Hundredths(30) * MatchingTriples(heap[1], figures[1])
        /\ returned_score = Min(RawScore(heap[1], figures[1]), Hundredths(100))

\* a score with all three triples matching: 0.9 below the other contributions
C19_Witness ==
    /\ Scored
    /\ MatchingTriples(heap[1], figures[1]) = Len(semantic_exclusions)
    /\ PositiveContributions(heap[1], figures[1]) > 0
    /\ returned_score = PositiveContributions(heap[1], figures[1]) - Hundredths(90)

(***************************************************************************)
(* C20, as claimed: some slide/figure pair has contributions that sum to   *)
(* more than 1.0, so that the clamp changes the returned value: among the  *)
(* pairs a call can be made with there is one whose returned score differs *)
(* from the sum.                                                           *)
(***************************************************************************)
C20_ClampChangesSomeScore ==
    pc \in {"scoring", "scored"} =>
        \E slide \in ScoreSlidePool, figure \in ScoreFigurePool :
            /\ RawScore(slide, figure) > Hundredths(100)
            /\ calculate_compatibility_score(slide, figure) # RawScore(slide, figure)

(***************************************************************************)
(* C20, amended: the contributions are at most 0.4, 0.3, 0.2 and 0.1 and   *)
(* the penalty is never negative, so their sum never exceeds 1.0 and the   *)
(* clamp returns the sum as it is.                                         *)
(***************************************************************************)
C20_ClampNeverActs ==
    Scored =>
        /\ SemanticScore(heap[1], figures[1]) <= Hundredths(40)
        /\ TypeScore(heap[1], figures[1]) <= Hundredths(30)
        /\ OverlapScore(heap[1], figures[1]) <= Hundredths(20)
        /\ ArchitectureBonus(heap[1], figures[1]) <= Hundredths(10)
        /\ ExclusionPenalty(heap[1], figures[1]) >= 0
        /\ RawScore(heap[1], figures[1]) <= Hundredths(100)
        /\ returned_score = RawScore(heap[1], figures[1])

\* a score with every contribution at its maximum and no penalty
C20_Witness ==
    /\ Scored
    /\ SemanticScore(heap[1], figures[1]) = Hundredths(40)
    /\ TypeScore(heap[1], figures[1]) = Hundredths(30)
    /\ OverlapScore(heap[1], figures[1]) = Hundredths(20)
    /\ ArchitectureBonus(heap[1], figures[1]) = Hundredths(10)
    /\ ExclusionPenalty(heap[1], figures[1]) = 0
    /\ returned_score = Hundredths(100)


(***************************************************************************)
(* C21: classify_slide_type returns the tag with the most keywords that    *)
(* occur in the lower-cased title plus content; of several tags with that  *)
(* count the one declared first (background, method, result, ablation,     *)
(* conclusion); and method when no keyword occurs.                         *)
(***************************************************************************)
TagOrder == <<"background", "method", "result", "ablation", "conclusion">>

TagKeywords ==
    [background |-> {"background", "introduction", "motivation", "problem", "challenge"},
     method |-> {"methodology", "approach", "method", "algorithm", "architecture", "framework"},
     result |-> {"result", "experiment", "evaluation", "performance", "comparison"},
     ablation |-> {"ablation", "analysis", "component", "impact"},
     conclusion |-> {"conclusion", "future", "limitation", "summary"}]

\* how many keywords of the tag occur in the text
Occurring(tag, text) == Cardinality({keyword \in TagKeywords[tag] : Contains(text, keyword)})

\* the lower-cased title and content of a slide, joined by spaces
TitlePlusContent(slide) ==
    Lower(Get(slide, "title", "") \o " " \o Join(Get(slide, "content", <<>>)))

SlideClassified == pc = "classified" /\ classified.call = "classify_slide_type"

C21_SlideTypeByKeywordCount ==
    SlideClassified =>
        LET text == TitlePlusContent(classified.arg)
            tags == 1..Len(TagOrder)
            n(i) == Occurring(TagOrder[i], text)
        IN  IF \A i \in tags : n(i) = 0
            THEN classified.value = "method"
            ELSE \E i \in tags :
                     /\ classified.value = TagOrder[i]
                     /\ \A j \in tags : n(j) <= n(i)
                     /\ \A j \in 1..(i - 1) : n(j) < n(i)

\* a slide on which two tags have the highest count, classified as the first
C21_Witness ==
    /\ SlideClassified
    /\ \E i \in 1..Len(TagOrder), j \in 1..Len(TagOrder) :
           /\ i < j
           /\ classified.value = TagOrder[i]
           /\ Occurring(TagOrder[i], TitlePlusContent(classified.arg)) > 0
           /\ Occurring(TagOrder[j], TitlePlusContent(classified.arg))
                  = Occurring(TagOrder[i], TitlePlusContent(classified.arg))

(***************************************************************************)
(* C22: classify_figure_type returns the category with the highest         *)
(* composite score (matching keywords + 0.1 * priority) among the          *)
(* categories with a matching keyword, with confidence                     *)
(* min(composite / 3.0, 1.0), which lies in [0, 1]; and (method_detail,    *)
(* 0.0) when no keyword matches.  Composite scores are in tenths and       *)
(* confidences in thirtieths.                                              *)
(***************************************************************************)
FigureCategories ==
    { [type |-> "method_architecture", priority |-> 5,
       keywords |-> {"architecture", "framework", "overview", "system", "model",
                     "illustration of our proposed", "cross-modal", "teacher model",
                     "style-based"}],
      [type |-> "results_performance", priority |-> 4,
       keywords |-> {"comparison", "performance", "result", "evaluation", "quantitative",
                     "qualitative"}],
      [type |-> "method_detail", priority |-> 3,
       keywords |-> {"visualization", "attention", "map", "process", "mechanism", "detail"}],
      [type |-> "results_examples", priority |-> 2,
       keywords |-> {"example", "generated", "output", "synthesis", "transfer"}],
      [type |-> "problem_illustration", priority |-> 1,
       keywords |-> {"overfitting", "artifact", "problem", "issue", "challenge"}] }

\* the lower-cased caption and description of a figure, joined by a space
CaptionPlusDescription(figure) ==
    Lower(Get(figure, "caption", "") \o " " \o Get(figure, "description", ""))

\* how many keywords of the category occur in the text
Matching(category, text) ==
    Cardinality({keyword \in category.keywords : Contains(text, keyword)})

\* keyword_score + priority * 0.1, in tenths
Composite(category, text) == 10 * Matching(category, text) + category.priority

FigureClassified == pc = "classified" /\ classified.call = "classify_figure_type"

C22_FigureTypeByCompositeScore ==
    FigureClassified =>
        LET text == CaptionPlusDescription(classified.arg)
            matched == {category \in FigureCategories : Matching(category, text) > 0}
        IN  /\ classified.value.confidence \in 0..30
            /\ IF matched = {}
               THEN classified.value = [type |-> "method_detail", confidence |-> 0]
               ELSE \E category \in matched :
                        /\ classified.value.type = category.type
                        /\ \A other \in matched :
                               Composite(other, text) <= Composite(category, text)
                        /\ classified.value.confidence = Min(Composite(category, text), 30)

\* a figure on which the category of lowest priority wins by its keyword
\* count over the category of highest priority, with the confidence at 1.0
C22_Witness ==
    /\ FigureClassified
    /\ classified.value = [type |-> "problem_illustration", confidence |-> 30]
    /\ \E category \in FigureCategories :
           /\ category.type = "method_architecture"
           /\ Matching(category, CaptionPlusDescription(classified.arg)) > 0
    /\ \E category \in FigureCategories :
           /\ category.type = "problem_illustration"
           /\ Composite(category, CaptionPlusDescription(classified.arg)) > 30

(***************************************************************************)
(* C23: every term _extract_important_terms returns is an acronym of 2 to  *)
(* 6 capital letters of the text, a hyphenated compound of the text, or a  *)
(* word of at least 4 characters in the domain vocabulary, and no stop     *)
(* word; an ordinary lower-case word is never returned.  Violated: the     *)
(* acronym pattern runs on text.upper(), so every word of 2 to 6 letters   *)
(* is returned.                                                            *)
(***************************************************************************)
TermsExtracted == pc = "classified" /\ classified.call = "extract_important_terms"

\* the terms of the three kinds in a text as it is written
ImportantTermsOf(text) ==
    {Lower(term) : term \in Acronyms(text)}
        \cup {Lower(term) : term \in Compounds(text)}
        \cup {word \in Words(Lower(text)) : Len(word) >= 4 /\ word \in domain_keywords}

C23_OnlyImportantTerms ==
    TermsExtracted =>
        /\ classified.value \subseteq ImportantTermsOf(classified.arg)
        /\ classified.value \cap stop_words = {}

(***************************************************************************)
(* C24: detect_architecture_figures returns exactly the figures whose      *)
(* lower-cased caption plus description contains architecture, framework,  *)
(* overview, system or illustration of our proposed, each once and in the  *)
(* order of the input list.                                                *)
(***************************************************************************)
\* the test of the claim over the model's figure texts
QualifiesTable ==
    [f \in FigureTexts |->
        \E keyword \in {"architecture", "framework", "overview", "system",
                         "illustration of our proposed"} :
            Contains(CaptionPlusDescription(f), keyword)]

Qualifies(figure) == QualifiesTable[TextFields(figure)]

\* the call has run detect_architecture_figures on its figure list
Detected == pc \in {"phase1", "phase2", "done", "raised"} /\ figures # <<>>

C24_DetectIsStableFilter ==
    Detected =>
        /\ \A n \in 1..Len(architecture_figures) :
               /\ architecture_figures[n] \in 1..Len(figures)
               /\ Qualifies(figures[architecture_figures[n]])
        /\ \A j \in 1..Len(figures) :
               Qualifies(figures[j]) =>
                   Cardinality({n \in 1..Len(architecture_figures) :
                                   architecture_figures[n] = j}) = 1
        /\ \A n \in 1..Len(architecture_figures), later \in 1..Len(architecture_figures) :
               n < later => architecture_figures[n] < architecture_figures[later]

\* a list with several qualifying figures, one of them by the keyword system
\* and not by architecture, detected in their order
C24_Witness ==
    /\ Detected
    /\ Len(architecture_figures) > 1
    /\ \E j \in 1..Len(figures) :
           /\ j \in ArchPositions
           /\ ~Contains(CaptionPlusDescription(figures[j]), "architecture")
           /\ Contains(CaptionPlusDescription(figures[j]), "system")
    /\ \A n \in 1..(Len(architecture_figures) - 1) :
           architecture_figures[n] < architecture_figures[n + 1]

(***************************************************************************)
(* C25: a figure whose caption and description are both empty is           *)
(* classified (method_detail, 0.0), scores 0 against every slide, never    *)
(* enters used_figures, is never an architecture figure, is referenced by  *)
(* no returned slide, and its turn in phase 2 writes nothing and raises    *)
(* nothing.                                                                *)
(***************************************************************************)
EmptyFigure(figure) == Get(figure, "caption", "") = "" /\ Get(figure, "description", "") = ""

\* classify_figure_type over the model's figure texts
FigureTypeTable == [f \in FigureTexts |-> classify_figure_type(f)]

C25_EmptyFigureLeftOut ==
    /\ [](\A j \in 1..Len(figures) :
              EmptyFigure(figures[j]) =>
                  /\ FigureTypeTable[TextFields(figures[j])]
                         = [type |-> "method_detail", confidence |-> 0]
                  /\ \A s \in SlideTexts : ScoreTable[s, TextFields(figures[j])] = 0
                  /\ figures[j]["id"] \notin used_figures
                  /\ \A n \in 1..Len(architecture_figures) : architecture_figures[n] # j
                  /\ pc = "done" => Holders(figures[j]["id"]) = {})
    /\ []((\A j \in 1..Len(figures) : EmptyFigure(figures[j])) => pc # "raised")
    /\ [][(pc = "phase2" /\ pos <= Len(figures) /\ EmptyFigure(figures[pos]))
              => (pc' = "phase2" /\ heap' = heap /\ used_figures' = used_figures)]_vars

\* returned: the first figure is empty, a slide arrived with a reference to
\* it, another figure was assigned, and no slide references the empty one
C25_Witness ==
    /\ pc = "done"
    /\ Len(figures) > 1
    /\ EmptyFigure(figures[1])
    /\ \E i \in 1..Len(input) : References(input[i], figures[1]["id"])
    /\ used_figures # {}
    /\ Holders(figures[1]["id"]) = {}

(***************************************************************************)
(* C26: every call ends (it returns or raises); each loop moves to the     *)
(* next figure at every iteration and no phase is entered twice, so a      *)
(* figure is attempted at most once per phase; a figure that phase 2 has   *)
(* passed without assigning it is never assigned later in the run.         *)
(***************************************************************************)
\* the position of a phase in the run
PhaseRank(at) ==
    CASE at = "ready" -> 0
      [] at = "phase1" -> 1
      [] at = "phase2" -> 2
      [] OTHER -> 3

C26_TerminatesWithoutRetry ==
    /\ <>(pc \in {"done", "raised"})
    /\ [][PhaseRank(pc) <= PhaseRank(pc')]_vars
    /\ [][(pc' = pc /\ pc \in {"phase1", "phase2"}) => pos' = pos + 1]_vars
    /\ [](pc = "phase1" =>
              \A n \in 1..Len(architecture_figures), later \in 1..Len(architecture_figures) :
                  n # later => architecture_figures[n] # architecture_figures[later])
    /\ [][\A j \in 1..Len(figures) :
              (pc = "phase2" /\ j < pos) =>
                  (figures[j]["id"] \in used_figures' <=> figures[j]["id"] \in used_figures)]_vars

\* returned: a figure was left unassigned although a slide that scores above
\* 0 against it is still without figure, and a later figure was assigned
C26_Witness ==
    /\ pc = "done"
    /\ \E j \in 1..Len(figures), later \in 1..Len(figures) :
           /\ j < later
           /\ figures[j]["id"] \notin used_figures
           /\ figures[later]["id"] \in used_figures
           /\ later \notin ArchPositions
           /\ \E i \in 1..Len(returned) :
                  /\ ~HasFigure(heap[returned[i]])
                  /\ Score(heap[returned[i]], figures[j]) > 0

(***************************************************************************)
(* C27: on return from a call with a non-empty figure list, every          *)
(* figure_reference that is not null names the id of a figure of the list, *)
(* also on a slide that arrived with a reference the planner had set.      *)
(***************************************************************************)
C27_ReferencesNameInputFigures ==
    Returned =>
        \A i \in 1..Len(returned) :
            LET fig_ref == Get(heap[returned[i]], "figure_reference", None)
            IN  fig_ref # None => ("id" \in DOMAIN fig_ref /\ fig_ref["id"] \in FigureIds)

\* returned: a slide arrived with a reference to a figure that is not in the
\* list, another with a reference to a figure of the list; a figure was assigned
C27_Witness ==
    /\ Returned
    /\ used_figures # {}
    /\ \E i \in 1..Len(input) :
           /\ Get(input[i], "figure_reference", None) # None
           /\ input[i]["figure_reference"]["id"] \notin FigureIds
    /\ \E i \in 1..Len(input) :
           /\ Get(input[i], "figure_reference", None) # None
           /\ input[i]["figure_reference"]["id"] \in FigureIds

(***************************************************************************)
(* C28: on return from a call with a non-empty figure list, every slide    *)
(* has both fields and includes_figure is true exactly when                *)
(* figure_reference is not null.  Violated: the reset leaves a slide as it *)
(* arrived when the id of its reference is in used_figures, whatever its   *)
(* flag says.                                                              *)
(***************************************************************************)
C28_FlagMatchesReference ==
    Returned =>
        \A i \in 1..Len(returned) :
            LET slide == heap[returned[i]]
            IN  /\ {"includes_figure", "figure_reference"} \subseteq DOMAIN slide
                /\ slide["includes_figure"] = (slide["figure_reference"] # None)

(***************************************************************************)
(* C29: a call on the slides the previous call returned, with the same     *)
(* figure list, returns them as they are: every slide keeps the figure it  *)
(* had.                                                                    *)
(***************************************************************************)
\* the call in progress is on the slides the latest finished call returned
OnOwnOutput ==
    /\ prev # None
    /\ "slides" \in DOMAIN prev.outcome
    /\ figures # <<>>
    /\ input = prev.outcome.slides

C29_IdempotentOnOutput ==
    [][(pc \notin {"done", "raised"} /\ pc' \in {"done", "raised"} /\ OnOwnOutput)
          => prev'.outcome = [slides |-> input]]_vars

\* a second call has returned, on the slides the first call returned, which
\* the first call had changed by assigning figures in both phases
C29_Witness ==
    /\ pc = "done"
    /\ recalled
    /\ first # None
    /\ "slides" \in DOMAIN first.outcome
    /\ input = first.outcome.slides
    /\ prev.input = input
    /\ prev.outcome = [slides |-> input]
    /\ \A i \in 1..Len(input) : first.input[i] # input[i]
    /\ \E j \in ArchPositions : Holders(figures[j]["id"]) # {}
    /\ \E j \in 1..Len(figures) : j \notin ArchPositions /\ Holders(figures[j]["id"]) # {}

(***************************************************************************)
(* C30, as claimed: in a call of TexWorkflow.process with compilation,     *)
(* validation runs at most max_retries times and not again after a         *)
(* success; a repair runs only after a failed validation that is not the   *)
(* last attempt, at most max_retries - 1 times; the result is success      *)
(* exactly when a validation succeeded, and failure after max_retries      *)
(* failed validations.  Violated for max_retries below 1: no validation    *)
(* and no repair runs, which is more than max_retries - 1 repairs.         *)
(***************************************************************************)
\* a call of process that has reached the loop of validation attempts
Compiling == pc = "process" /\ ~workflow.skip_compilation /\ workflow.attempt > 0

ProcessReturned == Compiling /\ workflow.at = "returned"

\* the step is a call of fix_tex_code
Repairs == workflow'.repairs # workflow.repairs

\* validation stops at the first success, and a repair follows a failed
\* validation of an attempt that is not the last
LoopOrder ==
    /\ [][(Compiling /\ workflow.succeeded > 0)
              => workflow'.validations = workflow.validations]_vars
    /\ [][(Compiling /\ Repairs) =>
              /\ workflow'.repairs = workflow.repairs + 1
              /\ workflow.failed = workflow.attempt
              /\ workflow.validations = workflow.attempt
              /\ workflow.succeeded = 0
              /\ workflow.repairs = workflow.attempt - 1
              /\ workflow.attempt < workflow.max_retries]_vars

\* success exactly when a validation succeeded; failure after max_retries
\* failed validations
ResultOfLoop ==
    [](ProcessReturned =>
          /\ (workflow.result = TRUE) <=> (workflow.succeeded > 0)
          /\ workflow.result \in BOOLEAN
          /\ workflow.succeeded <= 1
          /\ workflow.failed = workflow.max_retries => workflow.result = FALSE)

C30_RetryLoop ==
    /\ [](ProcessReturned =>
              /\ workflow.validations <= workflow.max_retries
              /\ workflow.repairs <= workflow.max_retries - 1)
    /\ LoopOrder
    /\ ResultOfLoop

(***************************************************************************)
(* C30, amended: the same with the counts bounded by max(max_retries, 0)   *)
(* validations and max(max_retries - 1, 0) repairs: for max_retries below  *)
(* 1 no validation and no repair runs and the result is failure.           *)
(***************************************************************************)
AtLeastZero(n) == IF n < 0 THEN 0 ELSE n

C30_RetryLoopFromOne ==
    /\ [](ProcessReturned =>
              /\ workflow.validations <= AtLeastZero(workflow.max_retries)
              /\ workflow.repairs <= AtLeastZero(workflow.max_retries - 1)
              /\ workflow.max_retries < 1 =>
                     (workflow.validations = 0 /\ workflow.result = FALSE))
    /\ LoopOrder
    /\ ResultOfLoop

\* returned: failure after max_retries failed validations, several of them,
\* with a repair after each but the last
C30_Witness ==
    /\ ProcessReturned
    /\ workflow.max_retries > 2
    /\ workflow.failed = workflow.max_retries
    /\ workflow.validations = workflow.max_retries
    /\ workflow.repairs = workflow.max_retries - 1
    /\ workflow.result = FALSE
    /\ workflow.message = "After max_retries attempts, still unable to fix TEX code"


====
